---- MODULE Spec2Model ----
(***************************************************************************)
(* Model of the Resume Roaster Lambda: backend/handler.py (lambda_handler, *)
(* success_response, error_response) and backend/rag_pipeline.py.          *)
(*                                                                         *)
(* One invocation of lambda_handler is one behaviour.  The handler is      *)
(* split into one action per pipeline step; the external capabilities      *)
(* (S3 download, PDF loader, splitter, embedding index, chat completion,   *)
(* os.remove) are nondeterministic choices over their possible outcomes.   *)
(***************************************************************************)
EXTENDS Integers, Sequences, FiniteSets, TLC

VARIABLES
    event,            \* the API Gateway proxy event (input)
    pc,               \* position of the handler
    response,         \* the returned envelope, NoResponse until the return
    tmp,              \* files present in the /tmp scratch space
    s3_bucket, s3_key, request_id, pdf_path,
    documents,        \* page records returned by load_pdf
    full_text,        \* extract_full_text(documents)
    chunks,           \* chunk records returned by chunk_text
    vectorstore,      \* the in-memory index (set of embedded chunks)
    qi,               \* index of the next query of the retrieval loop
    all_context_docs, \* results collected by the retrieval loop
    context_text,     \* the labelled context handed to generate_roast
    roast,            \* the text returned by generate_roast
    stages,           \* history: the pipeline stages started, in order
    calls,            \* history: the capability calls made, with their outcome
    log               \* history: what the handler printed about failures

vars == <<event, pc, response, tmp, s3_bucket, s3_key, request_id, pdf_path,
          documents, full_text, chunks, vectorstore, qi, all_context_docs,
          context_text, roast, stages, calls, log>>

-----------------------------------------------------------------------------
(* Bounds of the model *)
MaxPages == 2
MaxChunks == 3

(* Program constants *)
K == 3
ContextLimit == 5

-----------------------------------------------------------------------------
(* Python values *)
None == "<None>"
NoValue == "<unset>"
NoResponse == [statusCode |-> 0]

Min(a, b) == IF a < b THEN a ELSE b

(* A dict is a function from its keys; other JSON values keep their type. *)
PyDict(items) == [py |-> "dict", items |-> items]
PyList == [py |-> "list"]
PyNone == [py |-> "NoneType"]

(* dict.get(key): the value, or None when the key is absent *)
get(d, key) == IF key \in DOMAIN d.items THEN d.items[key] ELSE None

(* Python truthiness of the field values the model uses *)
truthy(v) == v \notin {None, ""}

(* all([...]) *)
all(vs) == \A i \in 1..Len(vs) : truthy(vs[i])

-----------------------------------------------------------------------------
(* JSON texts.  A text is either the serialisation of a value or one of    *)
(* two texts that are not JSON: "not json", and a run of 100000 '[' that   *)
(* exceeds the decoder's recursion limit before its end is reached.        *)
json_dumps(v) == [text |-> "json", value |-> v]
NotJsonText == [text |-> "not json"]
DeepText == [text |-> "[[[[...", depth |-> 100000]

IsText(s) == "text" \in DOMAIN s
IsValidJson(s) == IsText(s) /\ s.text = "json"

Ok(v) == [ok |-> TRUE, value |-> v]
Raised(t, m) == [ok |-> FALSE, type |-> t, msg |-> m]

(* json.loads(s) as CPython computes it: TypeError for a body that is not  *)
(* a text (None), RecursionError when the nesting exceeds the recursion    *)
(* limit, JSONDecodeError for any other text that is not JSON              *)
json_loads(s) ==
    CASE ~IsText(s) -> Raised("TypeError", "the JSON object must be str, bytes or bytearray, not NoneType")
      [] IsText(s) /\ s = DeepText -> Raised("RecursionError", "maximum recursion depth exceeded")
      [] IsText(s) /\ s = NotJsonText -> Raised("JSONDecodeError", "Expecting value")
      [] OTHER -> Ok(s.value)

-----------------------------------------------------------------------------
(* Inputs *)
Keys == {"s3_bucket", "s3_key", "request_id"}
FieldValues(k) ==
    CASE k = "s3_bucket" -> {None, "", "bucket1"}
      [] k = "s3_key" -> {None, "", "resumes/a.pdf"}
      [] k = "request_id" -> {None, "", "req-123"}

Dicts == UNION {{PyDict(f) : f \in {g \in [S -> {None, "", "bucket1", "resumes/a.pdf", "req-123"}] :
                                    \A k \in S : g[k] \in FieldValues(k)}} : S \in SUBSET Keys}

JsonValues == Dicts \cup {PyList, PyNone}

BodyTexts == {json_dumps(v) : v \in JsonValues} \cup {NotJsonText, DeepText}

(* event.get('body', '{}') : an event without the key, with a null body,   *)
(* or with a text body                                                     *)
Events == {[hasBody |-> FALSE, body |-> PyNone], [hasBody |-> TRUE, body |-> PyNone]}
          \cup {[hasBody |-> TRUE, body |-> t] : t \in BodyTexts}

event_get_body(e) == IF e.hasBody THEN e.body ELSE json_dumps(PyDict(<<>>))

-----------------------------------------------------------------------------
(* Response Formatter *)
Headers == [ContentType |-> "application/json",
            AccessControlAllowOrigin |-> "*",
            AccessControlAllowHeaders |-> "Content-Type,X-Api-Key",
            AccessControlAllowMethods |-> "POST,OPTIONS"]

(* A message built by an f-string: the fixed text and the str(e) put in it *)
Message(text, detail) == [text |-> text, detail |-> detail]

error_response(status_code, message) ==
    [statusCode |-> status_code, headers |-> Headers,
     body |-> json_dumps([error |-> message])]

success_response(rid, r, metadata) ==
    [statusCode |-> 200, headers |-> Headers,
     body |-> json_dumps([request_id |-> rid, roast |-> r, metadata |-> metadata])]

-----------------------------------------------------------------------------
(* The handler's two except clauses (handler.py 145-156) *)
except(e) ==
    IF e.type = "JSONDecodeError"
    THEN error_response(400, Message("Invalid JSON in request body", ""))
    ELSE error_response(500, Message("Internal server error: ", e.msg))

PdfPath(rid) == [dir |-> "/tmp/", name |-> rid, ext |-> ".pdf"]

(* The pages and the chunks are identified by their position *)
Page(i) == [page_content |-> i, page |-> i - 1]
Chunk(i) == [page_content |-> i]

Range(s) == {s[i] : i \in 1..Len(s)}

(* similarity_search(query, k): up to k distinct entries of the index,     *)
(* ranked; the ranking is the embedding model's, so any order can occur    *)
SearchResults(store, k) ==
    {s \in UNION {[1..n -> store] : n \in 0..Min(k, Cardinality(store))} :
        \A i, j \in 1..Len(s) : i # j => s[i] # s[j]}

Truncate_none(docs) == docs

(* all_context_docs[:5] *)
Truncate(docs) == SubSeq(docs, 1, Min(ContextLimit, Len(docs)))

(* the "\n\n".join of f"Section {i+1}:\n{doc.page_content}" over            *)
(* enumerate(all_context_docs[:5]), kept as the list of its labelled parts  *)
FormatContext(docs) ==
    [i \in 1..Len(Truncate(docs)) |->
        [label |-> i, page_content |-> Truncate(docs)[i].page_content]]

(* extract_full_text: the page contents in page order *)
extract_full_text(docs) == [i \in 1..Len(docs) |-> docs[i].page_content]

Metadata_swapped(cs, docs, ms) ==
    [chunks_processed |-> Len(docs),
     pages_processed |-> Len(cs),
     processing_time_ms |-> ms,
     model_used |-> "claude-3-5-sonnet-v2",
     embedding_model |-> "titan-embed-text-v1"]

(* handler.py 136-142: the metadata of the success envelope *)
Metadata(cs, docs, ms) ==
    [chunks_processed |-> Len(cs),
     pages_processed |-> Len(docs),
     processing_time_ms |-> ms,
     model_used |-> "claude-3-5-sonnet-v2",
     embedding_model |-> "titan-embed-text-v1"]

-----------------------------------------------------------------------------
Init ==
    /\ event \in Events
    /\ pc = "Parse"
    /\ response = NoResponse
    /\ tmp = {}
    /\ s3_bucket = NoValue /\ s3_key = NoValue /\ request_id = NoValue
    /\ pdf_path = NoValue
    /\ documents = <<>> /\ full_text = <<>> /\ chunks = <<>>
    /\ vectorstore = {}
    /\ qi = 1
    /\ all_context_docs = <<>> /\ context_text = <<>>
    /\ roast = NoValue
    /\ stages = <<>>
    /\ calls = <<>>
    /\ log = {}

(* The record of one call of an external capability *)
Call(fn, result, out) == [fn |-> fn, result |-> result, out |-> out]

(* A return statement: the envelope is formatted and the handler ends *)
Return(stage, resp) ==
    /\ response' = resp
    /\ pc' = "done"
    /\ stages' = IF stage = "" THEN Append(stages, "Format")
                 ELSE stages \o <<stage, "Format">>

Raise_retry(stage, e) ==
    /\ Len(stages) < 10
    /\ stages' = IF stage = "" THEN stages ELSE Append(stages, stage)
    /\ log' = log \cup {"Unexpected error"}
    /\ UNCHANGED <<response, pc>>

(* An exception reaching the except clauses of the handler *)
Raise(stage, e) ==
    /\ Return(stage, except(e))
    /\ log' = IF e.type = "JSONDecodeError" THEN log
              ELSE log \cup {"Unexpected error"}

(* handler.py 46-61: parse the body and validate the required fields *)
Parse ==
    /\ pc = "Parse"
    /\ LET r == json_loads(event_get_body(event)) IN
       IF ~r.ok
       THEN /\ Raise("Parse", r)
            /\ UNCHANGED <<s3_bucket, s3_key, request_id>>
       ELSE IF r.value.py # "dict"
       THEN /\ Raise("Parse", Raised("AttributeError", "object has no attribute 'get'"))
            /\ UNCHANGED <<s3_bucket, s3_key, request_id>>
       ELSE /\ s3_bucket' = get(r.value, "s3_bucket")
            /\ s3_key' = get(r.value, "s3_key")
            /\ request_id' = get(r.value, "request_id")
            /\ IF ~all(<<s3_bucket', s3_key', request_id'>>)
               THEN /\ Return("Parse", error_response(400,
                          Message("Missing required fields: s3_bucket, s3_key, request_id", "")))
                    /\ UNCHANGED log
               ELSE /\ pc' = "Fetch"
                    /\ stages' = Append(stages, "Parse")
                    /\ UNCHANGED <<response, log>>
    /\ UNCHANGED <<event, tmp, pdf_path, documents, full_text, chunks, vectorstore,
                   qi, all_context_docs, context_text, roast, calls>>

FetchFailed_ignored(e) ==
    /\ calls' = Append(calls, Call("download_file", "raised", e.msg))
    /\ pc' = "Extract"
    /\ stages' = Append(stages, "Fetch")
    /\ UNCHANGED <<response, tmp>>

(* handler.py 71-75: the except clause around the download *)
FetchFailed(e) ==
    /\ Return("Fetch", error_response(500, Message("Failed to download PDF from S3: ", e.msg)))
    /\ calls' = Append(calls, Call("download_file", "raised", e.msg))
    /\ UNCHANGED tmp

(* handler.py 63-75: download the object to /tmp/<request_id>.pdf *)
Fetch ==
    /\ pc = "Fetch"
    /\ pdf_path' = PdfPath(request_id)
    /\ \/ /\ tmp' = tmp \cup {pdf_path'}
          /\ calls' = Append(calls, Call("download_file", "ok", pdf_path'))
          /\ pc' = "Extract"
          /\ stages' = Append(stages, "Fetch")
          /\ UNCHANGED response
       \/ \E m \in {"NoSuchKey", "AccessDenied"} : FetchFailed(Raised("ClientError", m))
    /\ UNCHANGED <<event, s3_bucket, s3_key, request_id, documents, full_text, chunks,
                   vectorstore, qi, all_context_docs, context_text, roast, log>>

IsEmpty_never(docs) == FALSE

(* handler.py 81: not documents *)
IsEmpty(docs) == Len(docs) = 0

(* handler.py 77-88, rag_pipeline.py 19-32 and 165-176: load the pages *)
Extract ==
    /\ pc = "Extract"
    /\ \/ /\ Raise("Extract", Raised("PdfReadError", "EOF marker not found"))
          /\ calls' = Append(calls, Call("load_pdf", "raised", <<>>))
          /\ UNCHANGED <<documents, full_text>>
       \/ \E n \in 0..MaxPages :
            /\ documents' = [i \in 1..n |-> Page(i)]
            /\ calls' = Append(calls, Call("load_pdf", "ok", documents'))
            /\ IF IsEmpty(documents')
               THEN /\ Return("Extract", error_response(400,
                          Message("PDF appears to be empty or unreadable", "")))
                    /\ UNCHANGED full_text
               ELSE /\ full_text' = extract_full_text(documents')
                    /\ pc' = "Chunk"
                    /\ stages' = Append(stages, "Extract")
                    /\ UNCHANGED response
            /\ UNCHANGED log
    /\ UNCHANGED <<event, tmp, s3_bucket, s3_key, request_id, pdf_path, chunks,
                   vectorstore, qi, all_context_docs, context_text, roast>>

(* handler.py 90-92, rag_pipeline.py 35-54: split the pages into chunks *)
ChunkText ==
    /\ pc = "Chunk"
    /\ \E n \in 0..MaxChunks : chunks' = [i \in 1..n |-> Chunk(i)]
    /\ calls' = Append(calls, Call("chunk_text", "ok", chunks'))
    /\ pc' = "Index"
    /\ stages' = Append(stages, "Chunk")
    /\ UNCHANGED <<event, response, tmp, s3_bucket, s3_key, request_id, pdf_path,
                   documents, full_text, vectorstore, qi, all_context_docs,
                   context_text, roast, log>>

(* handler.py 94-96, rag_pipeline.py 57-81: embed the chunks, build the index *)
Index ==
    /\ pc = "Index"
    /\ \/ /\ vectorstore' = Range(chunks)
          /\ calls' = Append(calls, Call("initialize_vectorstore", "ok", <<>>))
          /\ pc' = "Retrieve"
          /\ stages' = Append(stages, "Index")
          /\ UNCHANGED <<response, log>>
       \/ /\ Raise("Index", Raised("EmbeddingError", "embedding capability failed"))
          /\ calls' = Append(calls, Call("initialize_vectorstore", "raised", <<>>))
          /\ UNCHANGED vectorstore
    /\ UNCHANGED <<event, tmp, s3_bucket, s3_key, request_id, pdf_path, documents,
                   full_text, chunks, qi, all_context_docs, context_text, roast>>

Queries == <<"work experience and accomplishments",
             "skills and qualifications",
             "formatting and presentation issues">>

(* handler.py 98-115, rag_pipeline.py 84-98: one iteration of the query    *)
(* loop; the last one also formats the context                             *)
Retrieve ==
    /\ pc = "Retrieve"
    /\ qi \in 1..Len(Queries)
    /\ \/ /\ \E context_docs \in SearchResults(vectorstore, K) :
                /\ all_context_docs' = all_context_docs \o context_docs
                /\ calls' = Append(calls, Call("retrieve_context", "ok",
                                             [query |-> Queries[qi], docs |-> context_docs]))
          /\ qi' = qi + 1
          /\ IF qi = Len(Queries)
             THEN /\ context_text' = FormatContext(all_context_docs')
                  /\ pc' = "Generate"
             ELSE UNCHANGED <<context_text, pc>>
          /\ stages' = IF qi = 1 THEN Append(stages, "Retrieve") ELSE stages
          /\ UNCHANGED <<response, log>>
       \/ /\ Raise(IF qi = 1 THEN "Retrieve" ELSE "", Raised("IndexError", "similarity search failed"))
          /\ calls' = Append(calls, Call("retrieve_context", "raised", <<>>))
          /\ UNCHANGED <<all_context_docs, qi, context_text>>
    /\ UNCHANGED <<event, tmp, s3_bucket, s3_key, request_id, pdf_path, documents,
                   full_text, chunks, vectorstore, roast>>

(* the contents response.content can have: empty, or a roast *)
Contents == {"", "Summary (Roast) ..."}

(* handler.py 117-119, rag_pipeline.py 101-162: call the chat completion   *)
(* with the context and the full text, return its content as it is         *)
Generate ==
    /\ pc = "Generate"
    /\ \/ /\ \E content \in Contents : roast' = content
          /\ calls' = Append(calls, Call("generate_roast", "ok",
                                         [context |-> context_text, content |-> roast']))
          /\ pc' = "Finish"
          /\ stages' = Append(stages, "Generate")
          /\ UNCHANGED <<response, log>>
       \/ /\ Raise("Generate", Raised("GenerationError", "completion capability failed"))
          /\ calls' = Append(calls, Call("generate_roast", "raised", [context |-> context_text]))
          /\ UNCHANGED roast
    /\ UNCHANGED <<event, tmp, s3_bucket, s3_key, request_id, pdf_path, documents,
                   full_text, chunks, vectorstore, qi, all_context_docs, context_text>>

(* int((time.time() - start_time) * 1000) *)
ElapsedMs == {4200}

(* handler.py 121-143: best-effort cleanup, then the success envelope *)
Finish ==
    /\ pc = "Finish"
    /\ \/ /\ tmp' = tmp \ {pdf_path}
          /\ calls' = IF pdf_path \in tmp
                      THEN Append(calls, Call("os.remove", "ok", pdf_path)) ELSE calls
          /\ UNCHANGED log
       \/ /\ pdf_path \in tmp
          /\ calls' = Append(calls, Call("os.remove", "raised", pdf_path))
          /\ log' = log \cup {"Warning: Cleanup failed"}
          /\ UNCHANGED tmp
    /\ \E ms \in ElapsedMs :
          Return("", success_response(request_id, roast, Metadata(chunks, documents, ms)))
    /\ UNCHANGED <<event, s3_bucket, s3_key, request_id, pdf_path, documents,
                   full_text, chunks, vectorstore, qi, all_context_docs, context_text, roast>>

Next == Parse \/ Fetch \/ Extract \/ ChunkText \/ Index \/ Retrieve \/ Generate \/ Finish

Spec == Init /\ [][Next]_vars

-----------------------------------------------------------------------------
(* Observations used by the properties *)
Returned == pc = "done"
Status == response.statusCode
Decoded == json_loads(response.body).value
Body == event_get_body(event)

CallsOf(fn) == {i \in 1..Len(calls) : calls[i].fn = fn}
Called(fn) == CallsOf(fn) # {}
CallResult(fn, result) == \E i \in CallsOf(fn) : calls[i].result = result
PipelineFns == {"load_pdf", "chunk_text", "initialize_vectorstore",
                "retrieve_context", "generate_roast"}
FileWritten == CallResult("download_file", "ok")

IsError(text) == DOMAIN Decoded = {"error"} /\ Decoded.error.text = text

-----------------------------------------------------------------------------
(* C1: a request body that is not valid JSON is answered with status 400   *)
(* and the error "Invalid JSON in request body", never 500, and no         *)
(* download, extraction, embedding or generation step is run.              *)
C1_InvalidJsonIs400 ==
    (Returned /\ IsText(Body) /\ ~IsValidJson(Body)) =>
        /\ Status = 400
        /\ IsError("Invalid JSON in request body")
        /\ calls = <<>>

(* C1, the case the handler does answer that way: a text the decoder       *)
(* rejects with JSONDecodeError                                            *)
C1_DecodeErrorIs400 ==
    (Returned /\ IsText(Body) /\ json_loads(Body) = Raised("JSONDecodeError", "Expecting value")) =>
        /\ Status = 400
        /\ IsError("Invalid JSON in request body")
        /\ calls = <<>>

(* C2: once the scratch file /tmp/<request_id>.pdf is written, it is gone  *)
(* when the handler returns, on every exit path, unless the removal failed *)
C2_ScratchFileRemoved ==
    (Returned /\ FileWritten /\ ~CallResult("os.remove", "raised")) =>
        pdf_path \notin tmp

(* C3: when load_pdf raises, the response status is 400, not 500 *)
C3_UnparsableIs400 ==
    (Returned /\ CallResult("load_pdf", "raised")) => Status = 400

(* C4: when the completion returns empty content the response is a status  *)
(* 500 error envelope, never a status 200 envelope with an empty roast     *)
C4_EmptyContentIs500 ==
    (Returned /\ \E i \in CallsOf("generate_roast") :
                    calls[i].result = "ok" /\ calls[i].out.content = "") =>
        /\ Status = 500
        /\ DOMAIN Decoded = {"error"}

(* C5: a parsed JSON body that lacks one of s3_bucket, s3_key, request_id, *)
(* or has one of them empty, is answered with status 400 and the           *)
(* missing-fields message, and the download is never run                   *)
LacksRequired(v) ==
    \/ v.py # "dict"
    \/ v.py = "dict" /\ \E k \in Keys : ~truthy(get(v, k))

C5_MissingFieldsIs400 ==
    (Returned /\ IsValidJson(Body) /\ LacksRequired(json_loads(Body).value)) =>
        /\ Status = 400
        /\ IsError("Missing required fields: s3_bucket, s3_key, request_id")
        /\ ~Called("download_file")
        /\ tmp = {}

(* C6: a failed download is answered with status 500 and a body holding    *)
(* only the error "Failed to download PDF from S3: ...", and no later step *)
(* of the pipeline is run                                                  *)
C6_DownloadFailureIs500 ==
    CallResult("download_file", "raised") =>
        /\ Returned
        /\ Status = 500
        /\ IsError("Failed to download PDF from S3: ")
        /\ Decoded.error.detail = calls[1].out
        /\ \A fn \in PipelineFns : ~Called(fn)

C6_Witness ==
    /\ Returned
    /\ CallResult("download_file", "raised")
    /\ Status = 500

(* C7: zero pages from load_pdf are answered with status 400 and the error *)
(* "PDF appears to be empty or unreadable"; nothing after the extraction   *)
(* is run                                                                  *)
ZeroPages == \E i \in CallsOf("load_pdf") : calls[i].result = "ok" /\ Len(calls[i].out) = 0

C7_ZeroPagesIs400 ==
    ZeroPages =>
        /\ Returned
        /\ Status = 400
        /\ IsError("PDF appears to be empty or unreadable")
        /\ Decoded.error.detail = ""
        /\ \A fn \in PipelineFns \ {"load_pdf"} : ~Called(fn)

C7_Witness == Returned /\ ZeroPages /\ Status = 400

(* C8: the context handed to generate_roast is the first min(5, n) entries *)
(* of the per-query results concatenated in query order, duplicates kept,  *)
(* labelled Section 1 .. Section m; it never has more than 5 entries       *)
IsRetrieval(c) == c.fn = "retrieve_context" /\ c.result = "ok"
Retrievals == SelectSeq(calls, IsRetrieval)
RECURSIVE Concat(_, _)
Concat(rs, i) == IF i > Len(rs) THEN <<>> ELSE rs[i].out.docs \o Concat(rs, i + 1)

C9_MetadataRoundTrip ==
    (Returned /\ Status = 200) =>
        /\ \E i \in CallsOf("chunk_text") :
               Decoded.metadata.chunks_processed = Len(calls[i].out)
        /\ \E i \in CallsOf("load_pdf") :
               Decoded.metadata.pages_processed = Len(calls[i].out)
        /\ Decoded.request_id = get(json_loads(Body).value, "request_id")

C9_Witness ==
    /\ Returned /\ Status = 200
    /\ Decoded.metadata.chunks_processed # Decoded.metadata.pages_processed
    /\ Decoded.request_id = "req-123"

(* C10: the stages run in the order Parse, Fetch, Extract, Chunk, Index,   *)
(* Retrieve, Generate, Format, each at most once; the first failure goes   *)
(* straight to the error envelope; every invocation returns exactly one    *)
(* envelope, 200 only if every stage succeeded, else 400 or 500 {error}    *)
StageOrder == <<"Parse", "Fetch", "Extract", "Chunk", "Index", "Retrieve", "Generate">>
IsPrefix(s, t) == Len(s) <= Len(t) /\ \A i \in 1..Len(s) : s[i] = t[i]
Failed(i) == calls[i].result = "raised" /\ calls[i].fn # "os.remove"

C10_Linear ==
    /\ IF Returned
       THEN /\ Len(stages) >= 2
            /\ stages[Len(stages)] = "Format"
            /\ IsPrefix(SubSeq(stages, 1, Len(stages) - 1), StageOrder)
       ELSE IsPrefix(stages, StageOrder)
    /\ Returned <=> response # NoResponse
    /\ \A i \in 1..Len(calls) : Failed(i) => (i = Len(calls) /\ Returned /\ Status # 200)
    /\ Returned =>
         /\ Status \in {200, 400, 500}
         /\ Status = 200 =>
              /\ stages = Append(StageOrder, "Format")
              /\ \A i \in 1..Len(calls) : ~Failed(i)
              /\ DOMAIN Decoded = {"request_id", "roast", "metadata"}
         /\ Status # 200 =>
              /\ DOMAIN Decoded = {"error"}
              /\ Len(stages) < Len(StageOrder) + 1 \/ \E i \in 1..Len(calls) : Failed(i)

(* The distance covered: it grows with every step and is bounded, so an    *)
(* invocation that can always take a step returns after finitely many      *)
Progress == Len(stages) + qi

C10_Pipeline ==
    /\ [](C10_Linear /\ Progress <= Len(StageOrder) + Len(Queries) + 2
                     /\ (~Returned => ENABLED Next))
    /\ [][~Returned /\ Progress' > Progress]_vars

C10_Witness ==
    /\ Returned
    /\ Status = 500
    /\ stages = <<"Parse", "Fetch", "Extract", "Chunk", "Index", "Format">>

====
